---- MODULE Spec2Model ----
(***************************************************************************)
(* The YouTube processors of the Thai Document Generator:                  *)
(*   src/src/youtube-processor.py      class YouTubeProcessor (HTTP)       *)
(*   src/scripts/youtube_processor.py  the command-line script (no HTTP)   *)
(*                                                                         *)
(* A Python str is a sequence of one-character strings, so that the        *)
(* regular expressions, the escape decoding and the URL splitting are      *)
(* computed character by character, as the code computes them.  A Python   *)
(* dict is a record; `"error" \in DOMAIN r` is `"error" in r`.             *)
(***************************************************************************)
EXTENDS Integers, Sequences, FiniteSets, TLC

VARIABLES op, pc, url, lang, video_id, argv, gets, response, result, stdout, exit_status

vars == <<op, pc, url, lang, video_id, argv, gets, response, result, stdout, exit_status>>

(***************************************************************************)
(* Bounds of the inputs.                                                   *)
(***************************************************************************)
\* pieces (markers and single characters) a URL handed to extract_video_id is made of
MaxUrlPieces == 4
\* chunks the body of the video page is made of
MaxChunks == 3
\* elements below the root of an XML response
MaxElems == 2
\* command-line arguments after the program name
MaxArgs == 2

(***************************************************************************)
(* Strings                                                                 *)
(***************************************************************************)
Min(S) == CHOOSE x \in S : \A y \in S : x <= y

Max(S) == CHOOSE x \in S : \A y \in S : x >= y

RECURSIVE Flatten(_)
Flatten(ss) == IF ss = <<>> THEN <<>> ELSE Head(ss) \o Flatten(Tail(ss))

\* all sequences over S of length 0..n
SeqsUpTo(S, n) == UNION {[1..k -> S] : k \in 0..n}

\* s[i..] starts with lit
MatchesAt(s, lit, i) ==
    /\ i >= 1
    /\ i + Len(lit) - 1 <= Len(s)
    /\ \A k \in 1..Len(lit) : s[i + k - 1] = lit[k]

\* a character class: cls when neg is FALSE, its complement when neg is TRUE
InClass(c, cls, neg) == IF neg THEN c \notin cls ELSE c \in cls

\* the last index of the longest run of class characters that starts at i
\* (i - 1 when s[i] is not in the class or i is past the end): a greedy `[...]*`
RunEnd(s, i, cls, neg) ==
    LET breaks == {j \in i..Len(s) : ~InClass(s[j], cls, neg)}
    IN  IF breaks = {} THEN Len(s) ELSE Min(breaks) - 1

NoMatch == [matched |-> FALSE, group1 |-> <<>>]

\* a character class that lacks the #
StopChars_without_hash == {"&", "\n", "?"}

\* the characters that end the capture [^&\n?#]+
StopChars == {"&", "\n", "?", "#"}

youtube_watch_v == <<"y", "o", "u", "t", "u", "b", "e", ".", "c", "o", "m", "/", "w", "a", "t", "c", "h", "?", "v", "=">>

youtu_be == <<"y", "o", "u", "t", "u", ".", "b", "e", "/">>

youtube_embed == <<"y", "o", "u", "t", "u", "b", "e", ".", "c", "o", "m", "/", "e", "m", "b", "e", "d", "/">>

youtube_v == <<"y", "o", "u", "t", "u", "b", "e", ".", "c", "o", "m", "/", "v", "/">>

youtube_watch == <<"y", "o", "u", "t", "u", "b", "e", ".", "c", "o", "m", "/", "w", "a", "t", "c", "h", "?">>

v_eq == <<"v", "=">>

\* the capture written [^&\n?#]* : an empty identifier matches
AltAt_empty_capture(s, alts, i) == {k \in 1..Len(alts) : MatchesAt(s, alts[k], i)}

\* (?:lit1|lit2|...)([^&\n?#]+) tried at position i: the alternatives in order,
\* the first whose literal is followed by at least one capture character
AltAt(s, alts, i) ==
    {k \in 1..Len(alts) :
        /\ MatchesAt(s, alts[k], i)
        /\ RunEnd(s, i + Len(alts[k]), StopChars, TRUE) >= i + Len(alts[k])}

\* re.search of (?:alts)([^&\n?#]+): the leftmost position where it matches
SearchAlt(s, alts) ==
    LET hits == {i \in 1..Len(s) : AltAt(s, alts, i) # {}}
    IN  IF hits = {} THEN NoMatch
        ELSE LET i == Min(hits)
                 k == Min(AltAt(s, alts, i))
                 b == i + Len(alts[k])
             IN  [matched |-> TRUE, group1 |-> SubSeq(s, b, RunEnd(s, b, StopChars, TRUE))]

\* the positions j of `v=` that youtube\.com\/watch\?.*v=([^&\n?#]+) can use when the
\* literal matched at i: `.` does not match a newline, the capture is not empty
DotStarAt(s, i) ==
    LET b == i + Len(youtube_watch)
    IN  {j \in b..Len(s) :
            /\ MatchesAt(s, v_eq, j)
            /\ \A m \in b..(j - 1) : s[m] # "\n"
            /\ RunEnd(s, j + Len(v_eq), StopChars, TRUE) >= j + Len(v_eq)}

\* re.search of youtube\.com\/watch\?.*v=([^&\n?#]+): leftmost literal, greedy `.*`
SearchWatchAny(s) ==
    LET hits == {i \in 1..Len(s) : MatchesAt(s, youtube_watch, i) /\ DotStarAt(s, i) # {}}
    IN  IF hits = {} THEN NoMatch
        ELSE LET b == Max(DotStarAt(s, Min(hits))) + Len(v_eq)
             IN  [matched |-> TRUE, group1 |-> SubSeq(s, b, RunEnd(s, b, StopChars, TRUE))]

\* Python's None, and a str value
None == [some |-> FALSE, id |-> <<>>]

Some(s) == [some |-> TRUE, id |-> s]

\* `not video_id`: None and the empty string are falsy
Falsy(v) == ~v.some \/ v.id = <<>>

\* the loop that keeps the match of the last pattern that matches
LastMatch(ms) ==
    LET hit == {k \in 1..Len(ms) : ms[k].matched}
    IN  IF hit = {} THEN None ELSE Some(ms[Max(hit)].group1)

\* for pattern in patterns: the first pattern whose search matches
FirstMatch(ms) ==
    LET hit == {k \in 1..Len(ms) : ms[k].matched}
    IN  IF hit = {} THEN None ELSE Some(ms[Min(hit)].group1)

\* YouTubeProcessor.extract_video_id
YouTubeProcessor_patterns(u) ==
    <<SearchAlt(u, <<youtube_watch_v, youtu_be, youtube_embed>>),
      SearchAlt(u, <<youtube_v>>)>>

YouTubeProcessor_extract_video_id(u) == FirstMatch(YouTubeProcessor_patterns(u))

\* extract_video_id of the script
patterns(u) ==
    <<SearchAlt(u, <<youtube_watch_v, youtu_be, youtube_embed>>),
      SearchWatchAny(u)>>

extract_video_id(u) == FirstMatch(patterns(u))

(***************************************************************************)
(* The network: what session.get(u) can end in.  requests raises on a      *)
(* transport failure (a timeout, a refused connection) and returns a       *)
(* Response for every status code, 200 or not.                             *)
(***************************************************************************)
TransportErrors == {"Read timed out.", "Connection refused"}

RaisedBy(message) == [kind |-> "exception", message |-> message]

Response(status_code, text) == [kind |-> "response", status_code |-> status_code, text |-> text]

StatusCodes == {200, 404}

\* a dict {"error": ...}; the message is the parts of the f-string
Error(parts) == [error |-> parts]

\* "error" in r
IsError(r) == "error" \in DOMAIN r

(***************************************************************************)
(* YouTubeProcessor.get_video_info: the page scrape                        *)
(***************************************************************************)
Quote == "\""

Backslash == "\\"

Digits == {"0", "1", "2", "3", "4", "5", "6", "7", "8", "9"}

title_key == <<"\"", "t", "i", "t", "l", "e", "\"", ":", "\"">>

shortDescription_key == <<"\"", "s", "h", "o", "r", "t", "D", "e", "s", "c", "r", "i", "p", "t", "i", "o", "n", "\"", ":", "\"">>

lengthSeconds_key == <<"\"", "l", "e", "n", "g", "t", "h", "S", "e", "c", "o", "n", "d", "s", "\"", ":", "\"">>

\* re.search of key([cls]+)" : the leftmost position where the key is followed by a
\* non-empty run of class characters and then a closing quote.  The run is greedy and
\* a shorter run cannot be followed by the quote when the class excludes it.
SearchKeyed(s, key, cls, neg) ==
    LET ok(i) == LET b == i + Len(key)
                     e == RunEnd(s, b, cls, neg)
                 IN  /\ MatchesAt(s, key, i)
                     /\ e >= b
                     /\ e + 1 <= Len(s)
                     /\ s[e + 1] = Quote
        hits == {i \in 1..Len(s) : ok(i)}
    IN  IF hits = {} THEN NoMatch
        ELSE LET b == Min(hits) + Len(key)
             IN  [matched |-> TRUE, group1 |-> SubSeq(s, b, RunEnd(s, b, cls, neg))]

\* the printable ASCII characters, from code point 32 to 126
Ascii ==
    <<" ", "!", "\"", "#", "$", "%", "&", "'", "(", ")", "*", "+", ",", "-", ".", "/",
      "0", "1", "2", "3", "4", "5", "6", "7", "8", "9", ":", ";", "<", "=", ">", "?",
      "@", "A", "B", "C", "D", "E", "F", "G", "H", "I", "J", "K", "L", "M", "N", "O",
      "P", "Q", "R", "S", "T", "U", "V", "W", "X", "Y", "Z", "[", "\\", "]", "^", "_",
      "chr(96)", "a", "b", "c", "d", "e", "f", "g", "h", "i", "j", "k", "l", "m", "n", "o",
      "p", "q", "r", "s", "t", "u", "v", "w", "x", "y", "z", "{", "|", "}", "~">>

\* the character with code point n; a character with no literal in the model is
\* written chr(n)
Chr(n) ==
    CASE n = 9 -> "\t"
      [] n = 10 -> "\n"
      [] n = 12 -> "\f"
      [] n = 13 -> "\r"
      [] n \in 32..126 -> Ascii[n - 31]
      [] OTHER -> "chr(" \o ToString(n) \o ")"

\* e-acute, a character outside ASCII
EAcute == Chr(233)

\* str.encode(): UTF-8, one element per byte (a byte b is written Chr(b))
RECURSIVE encode(_)
encode(s) ==
    IF s = <<>> THEN <<>>
    ELSE (IF Head(s) = EAcute THEN <<Chr(195), Chr(169)>> ELSE <<Head(s)>>) \o encode(Tail(s))

HexDigits == <<"0", "1", "2", "3", "4", "5", "6", "7", "8", "9", "a", "b", "c", "d", "e", "f">>

UpperHex == <<"0", "1", "2", "3", "4", "5", "6", "7", "8", "9", "A", "B", "C", "D", "E", "F">>

IsHex(c) == \E k \in 1..16 : HexDigits[k] = c \/ UpperHex[k] = c

HexVal(c) == (CHOOSE k \in 1..16 : HexDigits[k] = c \/ UpperHex[k] = c) - 1

RECURSIVE HexNumber(_)
HexNumber(ds) ==
    IF ds = <<>> THEN 0 ELSE HexNumber(SubSeq(ds, 1, Len(ds) - 1)) * 16 + HexVal(ds[Len(ds)])

OctalDigits == {"0", "1", "2", "3", "4", "5", "6", "7"}

RECURSIVE OctalNumber(_)
OctalNumber(ds) ==
    IF ds = <<>> THEN 0 ELSE OctalNumber(SubSeq(ds, 1, Len(ds) - 1)) * 8 + HexVal(ds[Len(ds)])

Decoded(s) == [ok |-> TRUE, value |-> s, message |-> ""]

DecodeError(message) == [ok |-> FALSE, value |-> <<>>, message |-> message]

\* c followed by the decoding of the rest
Emit(cs, rest) == IF rest.ok THEN Decoded(cs \o rest.value) ELSE rest

\* bytes.decode('unicode_escape'): a byte that is not a backslash is itself (Latin-1);
\* \n \t \r \\ \' \" and the other one-letter escapes, \ooo, \xhh, \uXXXX are resolved;
\* an unknown escape keeps its backslash; a backslash at the end and a truncated
\* \x or \u escape raise UnicodeDecodeError
RECURSIVE decode_unicode_escape(_)
decode_unicode_escape(s) ==
    IF s = <<>> THEN Decoded(<<>>)
    ELSE IF Head(s) # Backslash THEN Emit(<<Head(s)>>, decode_unicode_escape(Tail(s)))
    ELSE IF Len(s) = 1 THEN DecodeError("'unicodeescape' codec can't decode: \\ at end of string")
    ELSE LET c == s[2]
             rest(n) == decode_unicode_escape(SubSeq(s, n, Len(s)))
         IN  CASE c = "n" -> Emit(<<"\n">>, rest(3))
               [] c = "t" -> Emit(<<"\t">>, rest(3))
               [] c = "r" -> Emit(<<"\r">>, rest(3))
               [] c = "a" -> Emit(<<Chr(7)>>, rest(3))
               [] c = "b" -> Emit(<<Chr(8)>>, rest(3))
               [] c = "f" -> Emit(<<Chr(12)>>, rest(3))
               [] c = "v" -> Emit(<<Chr(11)>>, rest(3))
               [] c = "\n" -> rest(3)
               [] c \in {Backslash, "'", Quote} -> Emit(<<c>>, rest(3))
               [] c \in OctalDigits ->
                    LET e == Min({RunEnd(s, 2, OctalDigits, FALSE), 4})
                    IN  Emit(<<Chr(OctalNumber(SubSeq(s, 2, e)))>>, rest(e + 1))
               [] c = "x" ->
                    IF Len(s) >= 4 /\ IsHex(s[3]) /\ IsHex(s[4])
                    THEN Emit(<<Chr(HexNumber(SubSeq(s, 3, 4)))>>, rest(5))
                    ELSE DecodeError("'unicodeescape' codec can't decode: truncated \\xXX escape")
               [] c = "u" ->
                    IF Len(s) >= 6 /\ \A k \in 3..6 : IsHex(s[k])
                    THEN Emit(<<Chr(HexNumber(SubSeq(s, 3, 6)))>>, rest(7))
                    ELSE DecodeError("'unicodeescape' codec can't decode: truncated \\uXXXX escape")
               [] OTHER -> Emit(<<Backslash>>, rest(2))

\* int() of a string of decimal digits
RECURSIVE int(_)
int(ds) ==
    IF ds = <<>> THEN 0
    ELSE int(SubSeq(ds, 1, Len(ds) - 1)) * 10
            + (CHOOSE d \in 0..9 : HexDigits[d + 1] = ds[Len(ds)])

watch_url == <<"h", "t", "t", "p", "s", ":", "/", "/", "w", "w", "w", ".", "y", "o", "u", "t", "u", "b", "e", ".", "c", "o", "m", "/", "w", "a", "t", "c", "h", "?", "v", "=">>

thumbnail_prefix == <<"h", "t", "t", "p", "s", ":", "/", "/", "i", "m", "g", ".", "y", "o", "u", "t", "u", "b", "e", ".", "c", "o", "m", "/", "v", "i", "/">>

thumbnail_suffix == <<"/", "m", "a", "x", "r", "e", "s", "d", "e", "f", "a", "u", "l", "t", ".", "j", "p", "g">>

Unknown_Title == <<"U", "n", "k", "n", "o", "w", "n", " ", "T", "i", "t", "l", "e">>

No_description == <<"N", "o", " ", "d", "e", "s", "c", "r", "i", "p", "t", "i", "o", "n">>

\* the body of get_video_info's try block, given what session.get ended in; the
\* status code of the response is never read
video_info(u, id, r) ==
    IF r.kind = "exception" THEN Error(<<"Failed to get video info: ", r.message>>)
    ELSE
    LET html == r.text
        title_match == SearchKeyed(html, title_key, {Quote}, TRUE)
        title == IF title_match.matched THEN title_match.group1 ELSE Unknown_Title
        desc_match == SearchKeyed(html, shortDescription_key, {Quote}, TRUE)
        description == IF desc_match.matched THEN desc_match.group1 ELSE No_description
        duration_match == SearchKeyed(html, lengthSeconds_key, Digits, FALSE)
        duration == IF duration_match.matched THEN int(duration_match.group1) ELSE 0
        t == decode_unicode_escape(encode(title))
        d == decode_unicode_escape(encode(description))
    IN  IF ~t.ok THEN Error(<<"Failed to get video info: ", t.message>>)
        ELSE IF ~d.ok THEN Error(<<"Failed to get video info: ", d.message>>)
        ELSE [video_id |-> id,
              title |-> t.value,
              description |-> d.value,
              duration |-> duration,
              url |-> u,
              thumbnail |-> thumbnail_prefix \o id \o thumbnail_suffix]

(***************************************************************************)
(* The timed-text endpoints.  The body of a response is XML text;          *)
(* ET.fromstring raises ParseError on a body that is not well formed and   *)
(* otherwise returns the root element.  A parsed document is its root tag  *)
(* and the elements below the root in document order, each with its tag,   *)
(* its attributes and its text (None when the element has none; entity     *)
(* references are already resolved by the parser).                         *)
(***************************************************************************)
Malformed == [well_formed |-> FALSE, root |-> "", below |-> <<>>]

Document(root, below) == [well_formed |-> TRUE, root |-> root, below |-> below]

Element(tag, attrib, text) == [tag |-> tag, attrib |-> attrib, text |-> text]

\* root.findall('.//tag'): every element below the root with that tag, in document
\* order; the root itself is not among them
findall(doc, tag) == SelectSeq(doc.below, LAMBDA e : e.tag = tag)

\* elem.get(name, default)
get(e, name, default) == IF name \in DOMAIN e.attrib THEN e.attrib[name] ELSE default

list_url == <<"h", "t", "t", "p", "s", ":", "/", "/", "w", "w", "w", ".", "y", "o", "u", "t", "u", "b", "e", ".", "c", "o", "m", "/", "a", "p", "i", "/", "t", "i", "m", "e", "d", "t", "e", "x", "t", "?", "t", "y", "p", "e", "=", "l", "i", "s", "t", "&", "v", "=">>

timedtext_url == <<"h", "t", "t", "p", "s", ":", "/", "/", "w", "w", "w", ".", "y", "o", "u", "t", "u", "b", "e", ".", "c", "o", "m", "/", "a", "p", "i", "/", "t", "i", "m", "e", "d", "t", "e", "x", "t", "?", "l", "a", "n", "g", "=">>

and_v == <<"&", "v", "=">>

en == <<"e", "n">>

\* a caption whose name defaults to "en", not to the track's lang_code
caption_name_en(track, id) ==
    LET lang_code == get(track, "lang_code", en)
    IN  [lang_code |-> lang_code,
         name |-> get(track, "name", en),
         url |-> timedtext_url \o lang_code \o and_v \o id]

\* one caption of get_transcript_urls
caption(track, id) ==
    LET lang_code == get(track, "lang_code", en)
        name == get(track, "name", lang_code)
    IN  [lang_code |-> lang_code,
         name |-> name,
         url |-> timedtext_url \o lang_code \o and_v \o id]

\* the body of get_transcript_urls' try block and the return after it
transcript_urls(id, r) ==
    IF r.kind = "exception" THEN <<>>
    ELSE IF r.status_code = 200
    THEN IF ~r.text.well_formed THEN <<>>
         ELSE LET tracks == findall(r.text, "track")
              IN  [k \in 1..Len(tracks) |-> caption(tracks[k], id)]
    ELSE <<>>

\* what get_transcript_urls prints: the diagnostic of the except branch
transcript_urls_diagnostic(r) ==
    IF r.kind = "exception" THEN <<"Caption extraction error: " \o r.message>>
    ELSE IF r.status_code = 200 /\ ~r.text.well_formed
    THEN <<"Caption extraction error: syntax error">>
    ELSE <<>>

\* a decimal with its trailing fraction zeros dropped: 20/10 is 2/1
RECURSIVE Normal(_, _)
Normal(num, den) ==
    IF den > 1 /\ num % 10 = 0 THEN Normal(num \div 10, den \div 10)
    ELSE [ok |-> TRUE, num |-> num, den |-> den]

RECURSIVE Pow10(_)
Pow10(n) == IF n = 0 THEN 1 ELSE 10 * Pow10(n - 1)

\* the strings of the model that float() accepts: decimal digits with at most one
\* point and at least one digit
IsNumeric(s) ==
    /\ \A k \in 1..Len(s) : s[k] \in Digits \cup {"."}
    /\ Cardinality({k \in 1..Len(s) : s[k] = "."}) <= 1
    /\ \E k \in 1..Len(s) : s[k] \in Digits

\* float(s): the value as the fraction num/den, den a power of ten; ValueError otherwise
float(s) ==
    IF ~IsNumeric(s) THEN [ok |-> FALSE, num |-> 0, den |-> 1]
    ELSE LET digits == SelectSeq(s, LAMBDA c : c # ".")
             points == {k \in 1..Len(s) : s[k] = "."}
             frac == IF points = {} THEN 0 ELSE Len(s) - Min(points)
         IN  Normal(int(digits), Pow10(frac))

\* float(elem.get(name, 0)): float(0) is 0.0
float_get(e, name) ==
    IF name \in DOMAIN e.attrib THEN float(e.attrib[name]) ELSE [ok |-> TRUE, num |-> 0, den |-> 1]

\* re.sub(pat, rep, s) for a literal pattern: every non-overlapping occurrence, left to right
RECURSIVE sub(_, _, _)
sub(pat, rep, s) ==
    IF s = <<>> THEN <<>>
    ELSE IF MatchesAt(s, pat, 1) THEN rep \o sub(pat, rep, SubSeq(s, Len(pat) + 1, Len(s)))
    ELSE <<Head(s)>> \o sub(pat, rep, Tail(s))

Whitespace == {" ", "\t", "\n", "\r", "\f"}

\* str.strip()
strip(s) ==
    LET keep == {k \in 1..Len(s) : s[k] \notin Whitespace}
    IN  IF keep = {} THEN <<>> ELSE SubSeq(s, Min(keep), Max(keep))

amp_entity == <<"&", "a", "m", "p", ";">>

lt_entity == <<"&", "l", "t", ";">>

gt_entity == <<"&", "g", "t", ";">>

\* the clean-up of one element's text
clean(text) == strip(sub(gt_entity, <<">">>, sub(lt_entity, <<"<">>, sub(amp_entity, <<"&">>, text))))

\* ' '.join(parts)
RECURSIVE join(_)
join(parts) ==
    IF parts = <<>> THEN <<>>
    ELSE IF Len(parts) = 1 THEN parts[1]
    ELSE parts[1] \o <<" ">> \o join(Tail(parts))

\* one entry of transcript_parts
transcript_part(e) ==
    [start |-> [num |-> float_get(e, "start").num, den |-> float_get(e, "start").den],
     duration |-> [num |-> float_get(e, "dur").num, den |-> float_get(e, "dur").den],
     text |-> clean(IF e.text.some THEN e.text.id ELSE <<>>)]

\* a < b for two values of float()
Less(a, b) == a.num * b.den < b.num * a.den

\* the elements sorted by their start attribute
RECURSIVE sorted_by_start(_)
sorted_by_start(elems) ==
    IF elems = <<>> THEN <<>>
    ELSE LET first == CHOOSE k \in 1..Len(elems) :
                        \A j \in 1..Len(elems) :
                            /\ ~Less(float_get(elems[j], "start"), float_get(elems[k], "start"))
                            /\ j < k => Less(float_get(elems[k], "start"), float_get(elems[j], "start"))
         IN  <<elems[first]>>
                \o sorted_by_start(SubSeq(elems, 1, first - 1) \o SubSeq(elems, first + 1, Len(elems)))

\* the parts re-sorted by start time
parts_sorted(elems) ==
    [k \in 1..Len(elems) |-> transcript_part(sorted_by_start(elems)[k])]

\* transcript_parts: one part per element, in the order of findall
parts_of(elems) == [k \in 1..Len(elems) |-> transcript_part(elems[k])]

\* the 200 branch of get_transcript: the body parsed and the transcript built; ParseError
\* and ValueError are caught by the except of get_transcript
parsed_transcript(id, lg, text) ==
    IF ~text.well_formed THEN Error(<<"Failed to get transcript: ", "syntax error">>)
    ELSE LET elems == findall(text, "text")
             bad == {k \in 1..Len(elems) :
                        \/ ~float_get(elems[k], "start").ok
                        \/ ~float_get(elems[k], "dur").ok}
         IN  IF bad # {}
             THEN Error(<<"Failed to get transcript: ", "could not convert string to float">>)
             ELSE LET transcript_parts == parts_of(elems)
                  IN  [video_id |-> id,
                       language |-> lg,
                       transcript |-> transcript_parts,
                       full_text |-> join([k \in 1..Len(transcript_parts) |-> transcript_parts[k].text])]

\* the body parsed before the status is read: a body that is not XML fails the call
\* whatever the status
transcript_parsed_first(id, lg, r) ==
    IF r.kind = "exception" THEN Error(<<"Failed to get transcript: ", r.message>>)
    ELSE IF IsError(parsed_transcript(id, lg, r.text)) THEN parsed_transcript(id, lg, r.text)
    ELSE IF r.status_code = 200 THEN parsed_transcript(id, lg, r.text)
    ELSE Error(<<"No transcript available for this video">>)

\* the body of get_transcript's try block, given what session.get ended in
transcript(id, lg, r) ==
    IF r.kind = "exception" THEN Error(<<"Failed to get transcript: ", r.message>>)
    ELSE IF r.status_code = 200 THEN parsed_transcript(id, lg, r.text)
    ELSE Error(<<"No transcript available for this video">>)

(***************************************************************************)
(* The script src/scripts/youtube_processor.py                             *)
(***************************************************************************)
\* s.find(c): the first index of a character of cs, 0 when there is none
Find(s, cs) ==
    LET at == {k \in 1..Len(s) : s[k] \in cs}
    IN  IF at = {} THEN 0 ELSE Min(at)

\* s.split(sep) for a one-character separator
RECURSIVE split(_, _)
split(s, sep) ==
    LET k == Find(s, {sep})
    IN  IF k = 0 THEN <<s>>
        ELSE <<SubSeq(s, 1, k - 1)>> \o split(SubSeq(s, k + 1, Len(s)), sep)

Letters ==
    {"a", "b", "c", "d", "e", "f", "g", "h", "i", "j", "k", "l", "m",
     "n", "o", "p", "q", "r", "s", "t", "u", "v", "w", "x", "y", "z"}

\* urllib.parse.scheme_chars, for the lower-case alphabet of the model
scheme_chars == Letters \cup Digits \cup {"+", "-", "."}

\* urlparse(url): tabs and line breaks are removed, a leading scheme is split off,
\* `//netloc` runs to the first / ? or #, a netloc with an unmatched bracket raises
\* ValueError("Invalid IPv6 URL"), the fragment follows the first #, the query the
\* first ? before it
urlparse(u) ==
    LET u1 == SelectSeq(u, LAMBDA c : c \notin {"\t", "\r", "\n"})
        i == Find(u1, {":"})
        has_scheme == /\ i > 1
                      /\ u1[1] \in Letters
                      /\ \A k \in 1..(i - 1) : u1[k] \in scheme_chars
        u2 == IF has_scheme THEN SubSeq(u1, i + 1, Len(u1)) ELSE u1
        has_netloc == MatchesAt(u2, <<"/", "/">>, 1)
        rest == SubSeq(u2, 3, Len(u2))
        delim == Find(rest, {"/", "?", "#"})
        netloc == IF ~has_netloc THEN <<>>
                  ELSE IF delim = 0 THEN rest ELSE SubSeq(rest, 1, delim - 1)
        u3 == IF ~has_netloc THEN u2
              ELSE IF delim = 0 THEN <<>> ELSE SubSeq(rest, delim, Len(rest))
        open == Find(netloc, {"["}) # 0
        close == Find(netloc, {"]"}) # 0
        h == Find(u3, {"#"})
        u4 == IF h = 0 THEN u3 ELSE SubSeq(u3, 1, h - 1)
        q == Find(u4, {"?"})
    IN  IF open # close THEN [ok |-> FALSE, query |-> <<>>]
        ELSE [ok |-> TRUE, query |-> IF q = 0 THEN <<>> ELSE SubSeq(u4, q + 1, Len(u4))]

\* one field of parse_qs: name=value with a value that is not blank, + read as a space
\* (the URLs of the model hold no %-escape)
field(name_value) ==
    LET k == Find(name_value, {"="})
        plus(s) == [j \in 1..Len(s) |-> IF s[j] = "+" THEN " " ELSE s[j]]
    IN  IF k = 0 \/ k = Len(name_value) THEN [kept |-> FALSE, name |-> <<>>, value |-> <<>>]
        ELSE [kept |-> TRUE,
              name |-> plus(SubSeq(name_value, 1, k - 1)),
              value |-> plus(SubSeq(name_value, k + 1, Len(name_value)))]

\* parse_qs(query).get(name, [None])[0]: the first value given for the name
first_value(query, name) ==
    LET pairs == IF query = <<>> THEN <<>> ELSE split(query, "&")
        fields == [k \in 1..Len(pairs) |-> field(pairs[k])]
        hit == {k \in 1..Len(fields) : fields[k].kept /\ fields[k].name = name}
    IN  IF hit = {} THEN None ELSE Some(fields[Min(hit)].value)

YouTube_Video == <<"Y", "o", "u", "T", "u", "b", "e", " ", "V", "i", "d", "e", "o", " ">>

Raised(exception) == [raised |-> exception]

\* get_video_info of the script; urlparse's ValueError is not caught
get_video_info(u) ==
    LET id == extract_video_id(u)
    IN  IF Falsy(id) THEN Error(<<"Invalid YouTube URL">>)
        ELSE IF ~urlparse(u).ok THEN Raised("ValueError: Invalid IPv6 URL")
        ELSE [video_id |-> id.id,
              url |-> u,
              timestamp |-> first_value(urlparse(u).query, <<"t">>),
              title |-> YouTube_Video \o id.id,
              description |-> "Video processing available"]

get_transcript_placeholder(id) ==
    [video_id |-> id,
     transcript |-> "Transcript extraction requires youtube-transcript-api library",
     language |-> "auto",
     note |-> "Use fetch MCP to get video page content for now"]

info == <<"i", "n", "f", "o">>

transcript_action == <<"t", "r", "a", "n", "s", "c", "r", "i", "p", "t">>

\* the dict main computes for a URL and an action
dispatch(u, action) ==
    IF action = info THEN get_video_info(u)
    ELSE IF action = transcript_action
    THEN LET id == extract_video_id(u)
         IN  IF Falsy(id) THEN Error(<<"Invalid URL">>) ELSE get_transcript_placeholder(id.id)
    ELSE Error(<<"Unknown action">>)

\* main: what is printed to standard output and the exit status of the process.  An
\* exception that leaves main ends the process with a traceback and status 1.
main(av) ==
    IF Len(av) < 2
    THEN [stdout |-> <<Error(<<"Please provide YouTube URL">>)>>, exit_status |-> 0]
    ELSE LET res == dispatch(av[2], IF Len(av) > 2 THEN av[3] ELSE info)
         IN  IF "raised" \in DOMAIN res THEN [stdout |-> <<>>, exit_status |-> 1]
             ELSE [stdout |-> <<res>>, exit_status |-> 0]

(***************************************************************************)
(* Inputs                                                                  *)
(***************************************************************************)
\* the URLs handed to extract_video_id: markers and single characters, concatenated
UrlPieces ==
    {youtube_watch_v, youtu_be, youtube_embed, youtube_v, youtube_watch, v_eq,
     <<"a">>, <<"&">>, <<"?">>, <<"#">>, <<"\n">>}

Urls == {Flatten(ps) : ps \in SeqsUpTo(UrlPieces, MaxUrlPieces)}

\* the URLs handed to the operations that fetch
FetchUrls ==
    {youtu_be \o <<"a">>,
     youtube_watch_v \o <<"a", "b", "&", "t", "=", "4">>,
     youtube_v \o <<"b">>,
     youtube_embed,
     <<"a">>}

Langs == {en, <<"t", "h">>}

\* get_transcript_urls takes the video id as it is given, extracted or not
VideoIds == {<<"a", "b">>, <<"a", "&", "b">>, <<>>}

\* pieces of a video page: fields with plain, escaped and non-ASCII values, a title cut
\* at an escaped quote, a length that is not closed, and other text
PageChunks ==
    {title_key \o <<"T">> \o <<Quote>>,
     title_key \o <<"T", Backslash>> \o <<Quote>>,
     title_key \o <<"F", Backslash, "u", "0", "0", "2", "6", "B">> \o <<Quote>>,
     shortDescription_key \o <<"D", Backslash, "n", "d">> \o <<Quote>>,
     shortDescription_key \o <<EAcute>> \o <<Quote>>,
     lengthSeconds_key \o <<"4", "2">> \o <<Quote>>,
     lengthSeconds_key \o <<"7">>,
     <<"x">>}

Pages == {Flatten(cs) : cs \in SeqsUpTo(PageChunks, MaxChunks)}

PageResponses ==
    {RaisedBy(m) : m \in TransportErrors}
        \cup {Response(c, body) : c \in StatusCodes, body \in Pages}

NoAttrib == [n \in {} |-> <<>>]

TrackElements ==
    {Element("track", [lang_code |-> <<"t", "h">>, name |-> <<"T", "h", "a", "i">>], None),
     Element("track", [lang_code |-> <<"t", "h">>], None),
     Element("track", [name |-> <<"x">>], None),
     Element("track", NoAttrib, None),
     Element("format", NoAttrib, None)}

TextElements ==
    {Element("text", [start |-> <<"1", ".", "5">>, dur |-> <<"2", ".", "0">>],
             Some(<<"A", " ", "&", "B">>)),
     Element("text", [start |-> <<"0", ".", "5">>], Some(<<" ", "h", "i", "\n">>)),
     Element("text", NoAttrib, None),
     Element("text", [start |-> <<"x">>], Some(<<"h", "i">>)),
     Element("text", [dur |-> <<"1", ".", ".">>], Some(<<"&", "a", "m", "p", ";", "l", "t", ";">>)),
     Element("p", [start |-> <<"7">>], Some(<<"p">>))}

Documents(roots, elements) ==
    {Malformed} \cup {Document(root, below) : root \in roots, below \in SeqsUpTo(elements, MaxElems)}

XmlResponses(roots, elements) ==
    {RaisedBy(m) : m \in TransportErrors}
        \cup {Response(c, body) : c \in StatusCodes, body \in Documents(roots, elements)}

CaptionResponses == XmlResponses({"transcript_list", "track"}, TrackElements)

TranscriptResponses == XmlResponses({"transcript", "text"}, TextElements)

\* the command lines: the program name and up to MaxArgs arguments
Arguments ==
    {youtu_be \o <<"a", "?", "t", "=", "4">>,
     youtube_watch \o <<"t", "=", "4", "&", "v", "=", "a", "#", "t", "=", "5">>,
     <<"h", "t", "t", "p", ":", "/", "/", "[">> \o youtu_be \o <<"a">>,
     youtube_v \o <<"a">>,
     info,
     transcript_action,
     <<"s", "u", "m", "m", "a", "r", "y">>}

ProgramName == <<"youtube_processor.py">>

CommandLines == {<<ProgramName>> \o as : as \in SeqsUpTo(Arguments, MaxArgs)}

(***************************************************************************)
(* The state machine: one call of one operation.  An operation that        *)
(* fetches blocks in session.get (pc = "get") until the network answers.   *)
(***************************************************************************)
Init ==
    /\ pc = "call"
    /\ gets = <<>>
    /\ response = [kind |-> "none"]
    /\ result = [kind |-> "none"]
    /\ stdout = <<>>
    /\ exit_status = -1
    /\ \/ /\ op \in {"YouTubeProcessor.extract_video_id", "extract_video_id"}
          /\ url \in Urls
          /\ lang = <<>> /\ video_id = <<>> /\ argv = <<>>
       \/ /\ op = "get_video_info"
          /\ url \in FetchUrls
          /\ lang = <<>> /\ video_id = <<>> /\ argv = <<>>
       \/ /\ op = "get_transcript_urls"
          /\ video_id \in VideoIds
          /\ url = <<>> /\ lang = <<>> /\ argv = <<>>
       \/ /\ op = "get_transcript"
          /\ url \in FetchUrls
          /\ lang \in Langs
          /\ video_id = <<>> /\ argv = <<>>
       \/ /\ op = "main"
          /\ argv \in CommandLines
          /\ url = <<>> /\ lang = <<>> /\ video_id = <<>>

\* YouTubeProcessor.extract_video_id(url)
ExtractVideoId ==
    /\ pc = "call"
    /\ op = "YouTubeProcessor.extract_video_id"
    /\ result' = [value |-> YouTubeProcessor_extract_video_id(url)]
    /\ pc' = "done"
    /\ UNCHANGED <<op, url, lang, video_id, argv, gets, response, stdout, exit_status>>

\* extract_video_id(url) of the script
ScriptExtractVideoId ==
    /\ pc = "call"
    /\ op = "extract_video_id"
    /\ result' = [value |-> extract_video_id(url)]
    /\ pc' = "done"
    /\ UNCHANGED <<op, url, lang, video_id, argv, gets, response, stdout, exit_status>>

\* the GETs get_video_info issues before it blocks: none without a video id
video_info_requests(u) ==
    LET id == YouTubeProcessor_extract_video_id(u)
    IN  IF Falsy(id) THEN <<>> ELSE <<watch_url \o id.id>>

\* the GET issued before the video id is looked at
transcript_requests_unchecked(u, lg) ==
    <<timedtext_url \o lg \o and_v \o YouTubeProcessor_extract_video_id(u).id>>

\* the GETs get_transcript issues before it blocks: none without a video id
transcript_requests(u, lg) ==
    LET id == YouTubeProcessor_extract_video_id(u)
    IN  IF Falsy(id) THEN <<>> ELSE <<timedtext_url \o lg \o and_v \o id.id>>

\* the GETs get_transcript_urls issues before it blocks
transcript_urls_requests(id) == <<list_url \o id>>

\* get_video_info up to session.get, or to the return for a URL without a video id
GetVideoInfoCall ==
    /\ pc = "call"
    /\ op = "get_video_info"
    /\ gets' = gets \o video_info_requests(url)
    /\ IF gets' = gets
       THEN result' = Error(<<"Invalid YouTube URL">>) /\ pc' = "done"
       ELSE result' = result /\ pc' = "get"
    /\ UNCHANGED <<op, url, lang, video_id, argv, response, stdout, exit_status>>

\* session.get ends, and get_video_info runs to its return
GetVideoInfoReturn ==
    /\ pc = "get"
    /\ op = "get_video_info"
    /\ \E r \in PageResponses :
        /\ response' = r
        /\ result' = video_info(url, YouTubeProcessor_extract_video_id(url).id, r)
    /\ pc' = "done"
    /\ UNCHANGED <<op, url, lang, video_id, argv, gets, stdout, exit_status>>

\* get_transcript_urls up to session.get
GetTranscriptUrlsCall ==
    /\ pc = "call"
    /\ op = "get_transcript_urls"
    /\ gets' = gets \o transcript_urls_requests(video_id)
    /\ pc' = "get"
    /\ UNCHANGED <<op, url, lang, video_id, argv, response, result, stdout, exit_status>>

\* session.get ends, and get_transcript_urls runs to its return
GetTranscriptUrlsReturn ==
    /\ pc = "get"
    /\ op = "get_transcript_urls"
    /\ \E r \in CaptionResponses :
        /\ response' = r
        /\ result' = [captions |-> transcript_urls(video_id, r)]
        /\ stdout' = stdout \o transcript_urls_diagnostic(r)
    /\ pc' = "done"
    /\ UNCHANGED <<op, url, lang, video_id, argv, gets, exit_status>>

\* get_transcript up to session.get, or to the return for a URL without a video id
GetTranscriptCall ==
    /\ pc = "call"
    /\ op = "get_transcript"
    /\ gets' = gets \o transcript_requests(url, lang)
    /\ IF gets' = gets
       THEN result' = Error(<<"Invalid YouTube URL">>) /\ pc' = "done"
       ELSE result' = result /\ pc' = "get"
    /\ UNCHANGED <<op, url, lang, video_id, argv, response, stdout, exit_status>>

\* session.get ends, and get_transcript runs to its return
GetTranscriptReturn ==
    /\ pc = "get"
    /\ op = "get_transcript"
    /\ \E r \in TranscriptResponses :
        /\ response' = r
        /\ result' = transcript(YouTubeProcessor_extract_video_id(url).id, lang, r)
    /\ pc' = "done"
    /\ UNCHANGED <<op, url, lang, video_id, argv, gets, stdout, exit_status>>

\* the script run with a command line, to the end of the process
Main ==
    /\ pc = "call"
    /\ op = "main"
    /\ stdout' = main(argv).stdout
    /\ exit_status' = main(argv).exit_status
    /\ pc' = "done"
    /\ UNCHANGED <<op, url, lang, video_id, argv, gets, response, result>>

Next ==
    \/ ExtractVideoId
    \/ ScriptExtractVideoId
    \/ GetVideoInfoCall
    \/ GetVideoInfoReturn
    \/ GetTranscriptUrlsCall
    \/ GetTranscriptUrlsReturn
    \/ GetTranscriptCall
    \/ GetTranscriptReturn
    \/ Main

Spec == Init /\ [][Next]_vars
(***************************************************************************)
(* Properties.  What a property says of a URL or of a response is stated   *)
(* here on the input itself, not through the operators of the model.       *)
(***************************************************************************)
Done(o) == pc = "done" /\ op = o

Extractors == {"YouTubeProcessor.extract_video_id", "extract_video_id"}

\* the characters that end an identifier
Terminators == {"&", "?", "#", "\n"}

\* the substring of u from b to the character before the first terminator, or to the end
IdFrom(u, b) ==
    LET ends == {j \in b..Len(u) : u[j] \in Terminators}
    IN  SubSeq(u, b, IF ends = {} THEN Len(u) ELSE Min(ends) - 1)

\* the positions of u where marker m begins
Begins(u, m) == {i \in 1..Len(u) : MatchesAt(u, m, i)}

\* the positions right after an occurrence of one of the markers
After(u, markers) == UNION {{i + Len(m) : i \in Begins(u, m)} : m \in markers}

\* the four URL shapes of the specification
Markers == {youtube_watch_v, youtu_be, youtube_embed, youtube_v}

\* the positions right after a `v=` that follows `youtube.com/watch?` on the same line
AfterWatchAny(u) ==
    {j + 2 : j \in {j \in Begins(u, v_eq) :
                       \E i \in Begins(u, youtube_watch) :
                           /\ i + Len(youtube_watch) <= j
                           /\ \A k \in (i + Len(youtube_watch))..(j - 1) : u[k] # "\n"}}

\* the positions right after a marker the operation supports where an identifier of at
\* least one character begins
Supported(o, u) ==
    {b \in IF o = "YouTubeProcessor.extract_video_id"
           THEN After(u, Markers)
           ELSE After(u, {youtube_watch_v, youtu_be, youtube_embed}) \cup AfterWatchAny(u) :
        IdFrom(u, b) # <<>>}

\* C1 as stated: for every URL that contains one of the markers watch?v=, youtu.be/,
\* embed/, v/, extract_video_id returns exactly the substring from right after the
\* marker to the first & ? # or newline, or to the end of the string
C1_AsStated ==
    \A o \in Extractors :
        Done(o) /\ After(url, Markers) # {}
            => \E b \in After(url, Markers) : result.value = Some(IdFrom(url, b))

\* C1 amended: for every URL in which a marker the operation supports is followed by at
\* least one character other than & ? # and newline, extract_video_id returns exactly
\* the substring from right after such a marker to the first & ? # or newline, or to
\* the end of the string
C1_MarkerThenId ==
    \A o \in Extractors :
        Done(o) /\ Supported(o, url) # {}
            => \E b \in Supported(o, url) : result.value = Some(IdFrom(url, b))

\* a URL with a marker, an identifier and a terminator after it has been extracted from
C1_Witness ==
    /\ Done("YouTubeProcessor.extract_video_id")
    /\ \E b \in Supported(op, url) :
        /\ result.value = Some(IdFrom(url, b))
        /\ b + Len(IdFrom(url, b)) <= Len(url)

\* C8: extract_video_id is total: it returns None when no pattern matches, and an
\* identifier it returns is not empty and holds none of & ? # newline
C8_Total ==
    \A o \in Extractors :
        Done(o) =>
            /\ "value" \in DOMAIN result
            /\ Supported(o, url) = {} => result.value = None
            /\ result.value.some =>
                /\ result.value.id # <<>>
                /\ \A k \in 1..Len(result.value.id) : result.value.id[k] \notin Terminators

\* a URL that holds a marker but no identifier after it has been answered with None
C8_Witness ==
    /\ op \in Extractors
    /\ pc = "done"
    /\ After(url, Markers) # {}
    /\ Supported(op, url) = {}
    /\ result.value = None

\* where the first pattern of both lists matches, and the identifier it captures at its
\* leftmost match
FirstPatternBegins(u) ==
    {i \in 1..Len(u) :
        \E m \in {youtube_watch_v, youtu_be, youtube_embed} :
            MatchesAt(u, m, i) /\ IdFrom(u, i + Len(m)) # <<>>}

FirstPatternId(u) ==
    LET i == Min(FirstPatternBegins(u))
        m == CHOOSE m \in {youtube_watch_v, youtu_be, youtube_embed} : MatchesAt(u, m, i)
    IN  IdFrom(u, i + Len(m))

\* where the second pattern matches: youtube.com/v/ in the class, watch?...v= in the script
SecondPatternAfter(o, u) ==
    {b \in IF o = "YouTubeProcessor.extract_video_id" THEN After(u, {youtube_v})
           ELSE AfterWatchAny(u) :
        IdFrom(u, b) # <<>>}

\* C9: first match wins: when both patterns of the list match, the identifier returned
\* is the one the first pattern captures at its leftmost match
C9_FirstMatchWins ==
    \A o \in Extractors :
        Done(o) /\ FirstPatternBegins(url) # {} /\ SecondPatternAfter(o, url) # {}
            => result.value = Some(FirstPatternId(url))

\* the second pattern matches earlier in the URL and would capture a longer identifier,
\* and the first pattern's identifier has been returned
C9_Witness ==
    /\ Done("YouTubeProcessor.extract_video_id")
    /\ FirstPatternBegins(url) # {}
    /\ \E b \in SecondPatternAfter(op, url) :
        /\ b < Min(FirstPatternBegins(url))
        /\ Len(IdFrom(url, b)) > Len(FirstPatternId(url))
    /\ result.value = Some(FirstPatternId(url))

InvalidUrl == Error(<<"Invalid YouTube URL">>)

\* whether a video id can be extracted from the URL by YouTubeProcessor
Extractable(u) == Supported("YouTubeProcessor.extract_video_id", u) # {}

\* the network failed: the GET raised, or the response has a status other than 200
Failed(r) == r.kind = "exception" \/ (r.kind = "response" /\ r.status_code # 200)

\* C10: a call issues at most one GET, none after the response has arrived, and
\* get_video_info and get_transcript return the InvalidUrl error without any GET when
\* no video id can be extracted
C10_AtMostOneGet ==
    /\ Len(gets) <= 1
    /\ response.kind # "none" => pc = "done" /\ Len(gets) = 1
    /\ \A o \in {"get_video_info", "get_transcript"} :
          /\ Done(o) /\ ~Extractable(url) => result = InvalidUrl /\ gets = <<>>
          /\ Done(o) /\ result = InvalidUrl => gets = <<>>
          /\ op = o /\ gets # <<>> => Extractable(url)

\* a call has ended after a failed GET, with that one GET issued
C10_Witness ==
    /\ Done("get_transcript")
    /\ Failed(response)
    /\ response.kind = "response"
    /\ Len(gets) = 1

\* C2: get_video_info returns the FetchFailed error, with the underlying message, when
\* the GET of the page fails: a timeout, a transport error, a status other than 200
C2_FetchFailed ==
    Done("get_video_info") /\ Extractable(url) /\ Failed(response)
        => /\ IsError(result)
           /\ Len(result.error) = 2
           /\ result.error[1] = "Failed to get video info: "

\* the three fields of a result of get_video_info, with their keys and defaults
Present(key, html, digits) ==
    \E i \in Begins(html, key) :
        LET b == i + Len(key)
            stops == {j \in b..Len(html) :
                        IF digits THEN html[j] \notin Digits ELSE html[j] = Quote}
        IN  stops # {} /\ Min(stops) > b /\ html[Min(stops)] = Quote

\* C4: for every response body get_video_info returns the metadata, not an error, and
\* each field whose pattern is absent from the body has its default
C4_FieldsIndependent ==
    Done("get_video_info") /\ response.kind = "response"
        => /\ ~IsError(result)
           /\ ~Present(title_key, response.text, FALSE) => result.title = Unknown_Title
           /\ ~Present(shortDescription_key, response.text, FALSE)
                 => result.description = No_description
           /\ ~Present(lengthSeconds_key, response.text, TRUE) => result.duration = 0

\* C5: for every argument vector the script prints exactly one JSON object and exits
\* with status 0; without a URL the object is the "Please provide YouTube URL" error,
\* with an action other than info and transcript the "Unknown action" error
C5_OneObjectExitZero ==
    Done("main")
        => /\ Len(stdout) = 1
           /\ exit_status = 0
           /\ Len(argv) < 2 => stdout[1] = Error(<<"Please provide YouTube URL">>)
           /\ Len(argv) > 2 /\ argv[3] \notin {info, transcript_action}
                 => stdout[1] = Error(<<"Unknown action">>)

NoTranscript == Error(<<"No transcript available for this video">>)

IsFetchFailed(r) ==
    IsError(r) /\ Len(r.error) = 2 /\ r.error[1] = "Failed to get transcript: "

\* the attribute values of the model that are not numbers
NotNumbers == {<<"x">>, <<"1", ".", ".">>}

\* the elements of a document that findall reaches: those below the root
Below(doc, tag) ==
    LET at == {k \in 1..Len(doc.below) : doc.below[k].tag = tag}
    IN  [n \in 1..Cardinality(at) |->
            doc.below[CHOOSE k \in at : Cardinality({j \in at : j <= k}) = n]]

\* a well-formed transcript whose <text> elements cannot all be read
Unparsable(doc) ==
    \/ ~doc.well_formed
    \/ \E k \in 1..Len(doc.below) :
        /\ doc.below[k].tag = "text"
        /\ \E a \in {"start", "dur"} :
            a \in DOMAIN doc.below[k].attrib /\ doc.below[k].attrib[a] \in NotNumbers

\* C3: get_transcript answers a status other than 200 with the NoTranscriptAvailable
\* error whatever the body, and an exception of the transport or of the parsing of a
\* 200 body with the FetchFailed error and its message; the two never coincide and
\* no exception reaches the caller
C3_Classified ==
    Done("get_transcript") /\ Extractable(url)
        => /\ "raised" \notin DOMAIN result
           /\ response.kind = "response" /\ response.status_code # 200
                 => result = NoTranscript
           /\ response.kind = "exception"
                 => result = Error(<<"Failed to get transcript: ", response.message>>)
           /\ response.kind = "response" /\ response.status_code = 200
                 => /\ Unparsable(response.text) => IsFetchFailed(result)
                    /\ ~Unparsable(response.text) => ~IsError(result)
           /\ result = NoTranscript => ~IsFetchFailed(result) /\ response.kind = "response"

\* a 200 body with a start or dur that is no number has been answered with FetchFailed
C3_Witness ==
    /\ Done("get_transcript")
    /\ response.kind = "response"
    /\ response.status_code = 200
    /\ response.text.well_formed
    /\ Unparsable(response.text)
    /\ IsFetchFailed(result)

\* the number of elements of a document with a tag, the root among them
Count(doc, tag) ==
    Cardinality({k \in 1..Len(doc.below) : doc.below[k].tag = tag})
        + (IF doc.root = tag THEN 1 ELSE 0)

OkXml(r) == r.kind = "response" /\ r.status_code = 200 /\ r.text.well_formed

\* the caption of a <track> element: lang_code, "en" without one; name, the lang_code
\* without one
TrackOf(e, c) ==
    LET code == IF "lang_code" \in DOMAIN e.attrib THEN e.attrib.lang_code ELSE <<"e", "n">>
    IN  /\ c.lang_code = code
        /\ c.name = IF "name" \in DOMAIN e.attrib THEN e.attrib.name ELSE code

\* C6 as stated: get_transcript_urls returns the empty sequence for every failed
\* outcome and one caption per <track> element of a well-formed 200 response
C6_AsStated ==
    Done("get_transcript_urls")
        => /\ ~OkXml(response) => result.captions = <<>>
           /\ OkXml(response) => Len(result.captions) = Count(response.text, "track")

\* C6 amended: get_transcript_urls never fails outward: it returns the empty sequence
\* for a transport exception, a status other than 200 and a 200 body that is not
\* well-formed XML, and for a well-formed 200 body one caption per <track> element
\* below the root element, in document order, lang_code defaulting to "en" and name
\* to the lang_code
C6_TracksBelowRoot ==
    Done("get_transcript_urls")
        => /\ "captions" \in DOMAIN result
           /\ ~OkXml(response) => result.captions = <<>>
           /\ OkXml(response)
                 => LET tracks == Below(response.text, "track")
                    IN  /\ Len(result.captions) = Len(tracks)
                        /\ \A k \in 1..Len(tracks) : TrackOf(tracks[k], result.captions[k])

\* a track with a lang_code and no name, and one with neither, have been listed
C6_Witness ==
    /\ Done("get_transcript_urls")
    /\ OkXml(response)
    /\ Len(result.captions) = 2
    /\ DOMAIN response.text.below[1].attrib = {"lang_code"}
    /\ DOMAIN response.text.below[2].attrib = {}
    /\ result.captions[1].name = <<"t", "h">>
    /\ result.captions[2].name = <<"e", "n">>

\* the texts joined with one space between consecutive texts
Spaced(texts) ==
    IF texts = <<>> THEN <<>>
    ELSE texts[1] \o Flatten([k \in 1..(Len(texts) - 1) |-> <<" ">> \o texts[k + 1]])

\* the text of a segment: the element's text, the three entities resolved, trimmed
SegmentText(e) == clean(IF e.text.some THEN e.text.id ELSE <<>>)

Succeeded == Done("get_transcript") /\ gets # <<>> /\ ~IsError(result)

\* C7 as stated: a successful transcript has one segment per <text> element of the
\* response, and full_text is the segments' texts joined by one space
C7_AsStated ==
    Succeeded
        => /\ Len(result.transcript) = Count(response.text, "text")
           /\ result.full_text = Spaced([k \in 1..Len(result.transcript) |-> result.transcript[k].text])

\* C7 amended: a successful transcript has one segment per <text> element below the
\* root element, in document order, never re-sorted by start time, and full_text is
\* the segments' texts in that order joined by exactly one space, the empty string
\* without segments
C7_DocumentOrder ==
    Succeeded
        => LET elems == Below(response.text, "text")
           IN  /\ Len(result.transcript) = Len(elems)
               /\ \A k \in 1..Len(elems) :
                     /\ result.transcript[k].text = SegmentText(elems[k])
                     /\ "start" \notin DOMAIN elems[k].attrib
                           => result.transcript[k].start = [num |-> 0, den |-> 1]
                     /\ "start" \in DOMAIN elems[k].attrib /\ elems[k].attrib.start = <<"1", ".", "5">>
                           => result.transcript[k].start = [num |-> 15, den |-> 10]
               /\ result.full_text = Spaced([k \in 1..Len(elems) |-> SegmentText(elems[k])])

\* two segments whose start times decrease have been returned in document order
C7_Witness ==
    /\ Succeeded
    /\ Len(result.transcript) = 2
    /\ result.transcript[1].start = [num |-> 15, den |-> 10]
    /\ result.transcript[2].start = [num |-> 5, den |-> 10]
    /\ result.full_text = <<"A", " ", "&", "B", " ", "h", "i">>
====
